---- MODULE Spec2Model ----
(***************************************************************************)
(* ccwc (src/main.rs): argument parsing, source reading, counting and      *)
(* printing, as a state machine.                                           *)
(*                                                                         *)
(* Text is a sequence of characters, each character a one-element string;  *)
(* NUL and EAcute name the NUL character and a two-byte UTF-8 character.   *)
(* A constant piece of a printed message is kept as one element.           *)
(***************************************************************************)
EXTENDS Integers, Sequences, FiniteSets, TLC

VARIABLES argv, files, read_stdin, opts_set, opts, stdin, stdin_eof, fs,
          out, fidx, pc

vars == <<argv, files, read_stdin, opts_set, opts, stdin, stdin_eof, fs,
          out, fidx, pc>>

\* ------------------------------------------------------------ bounds
MaxArgs == 3
MaxWcArgs == 2
MaxLen == 3

\* ------------------------------------------------------------ characters
NUL == "NUL"
EAcute == "U+00E9"
NL == "\n"
CR == "\r"
SP == " "

ByteLen(c) == IF c = EAcute THEN 2 ELSE 1

IsWhitespace(c) == c \in {" ", "\n", "\r", "\t"}

FMT_DISPLAY_WIDTH == 6

\* ------------------------------------------------------------ std helpers
RECURSIVE bytes_len(_)
bytes_len(s) == IF s = <<>> THEN 0 ELSE ByteLen(Head(s)) + bytes_len(Tail(s))

chars_count(s) == Len(s)

starts_with(s, p) == Len(s) >= Len(p) /\ SubSeq(s, 1, Len(p)) = p

\* str::split(sep): the pieces between separators, empty pieces kept.
RECURSIVE split(_, _)
split(s, sep) ==
    IF s = <<>> THEN << <<>> >>
    ELSE LET rest == split(Tail(s), sep)
         IN  IF Head(s) = sep THEN << <<>> >> \o rest
             ELSE << <<Head(s)>> \o Head(rest) >> \o Tail(rest)

strip_cr(l) ==
    IF l # <<>> /\ l[Len(l)] = CR THEN SubSeq(l, 1, Len(l) - 1) ELSE l

\* lines, were the text split at every "\n", a final empty piece kept.
lines_SplitNewline(s) == split(s, NL)

\* str::lines(): split after each "\n"; a line that ended in "\n" loses it
\* and then one "\r"; no line follows a final "\n".
lines(s) ==
    LET raw == split(s, NL)
        n == Len(raw)
        ended == [i \in 1..(n - 1) |-> strip_cr(raw[i])]
    IN  IF raw[n] = <<>> THEN ended ELSE ended \o <<raw[n]>>

\* str::split_whitespace().count(): the maximal runs of non-whitespace.
split_whitespace_count(l) ==
    Cardinality({i \in 1..Len(l) :
        /\ ~IsWhitespace(l[i])
        /\ (i = 1 \/ IsWhitespace(l[i - 1]))})

RECURSIVE Digits(_)
Digits(n) ==
    LET d == <<"0", "1", "2", "3", "4", "5", "6", "7", "8", "9">>
    IN  IF n < 10 THEN <<d[n + 1]>> ELSE Digits(n \div 10) \o <<d[(n % 10) + 1]>>

\* FmtRight, were the text left-aligned ("{:<w$}").
FmtRight_Left(s, w) ==
    IF Len(s) >= w THEN s ELSE s \o [i \in 1..(w - Len(s)) |-> SP]

\* format!("{:>w$}", s): right-aligned, padded with spaces to w characters.
FmtRight(s, w) ==
    IF Len(s) >= w THEN s ELSE [i \in 1..(w - Len(s)) |-> SP] \o s

\* ------------------------------------------------------------ WcCliOpt
CountBytes == "CountBytes"
CountCharacters == "CountCharacters"
CountLines == "CountLines"
CountWords == "CountWords"
MaxLineLength == "MaxLineLength"

WcCliOpt == {CountBytes, CountCharacters, CountLines, CountWords, MaxLineLength}

\* ------------------------------------------------------------ wc
RECURSIVE MaxLineBytes(_)
MaxLineBytes(ls) ==
    IF ls = <<>> THEN 0
    ELSE LET mx == MaxLineBytes(SubSeq(ls, 1, Len(ls) - 1))
             n == bytes_len(ls[Len(ls)])
         IN  IF n > mx THEN n ELSE mx

RECURSIVE SumWords(_)
SumWords(ls) ==
    IF ls = <<>> THEN 0 ELSE split_whitespace_count(Head(ls)) + SumWords(Tail(ls))

\* One iteration of wc's loop over opts: the count, its slot in the tuple.
CountOf(contents, opt) ==
    CASE opt = CountBytes      -> [slot |-> 1, n |-> bytes_len(contents)]
      [] opt = CountCharacters -> [slot |-> 2, n |-> chars_count(contents)]
      [] opt = CountLines      -> [slot |-> 3, n |-> Len(lines(contents))]
      [] opt = MaxLineLength   -> [slot |-> 4, n |-> MaxLineBytes(lines(contents))]
      [] opt = CountWords      -> [slot |-> 5, n |-> SumWords(lines(contents))]

RECURSIVE wc_from(_, _, _)
wc_from(contents, os, acc) ==
    IF os = <<>> THEN acc
    ELSE LET c == CountOf(contents, Head(os))
         IN  wc_from(contents, Tail(os),
                 [fmt    |-> acc.fmt \o FmtRight(Digits(c.n), FMT_DISPLAY_WIDTH) \o <<SP>>,
                  counts |-> [acc.counts EXCEPT ![c.slot] = c.n]])

wc(contents, os) == wc_from(contents, os, [fmt |-> <<>>, counts |-> <<0, 0, 0, 0, 0>>])

\* ------------------------------------------------------------ arguments
Dash == <<"-">>
ArgBytes == {<<"-", "c">>, <<"-", "-", "b", "y", "t", "e", "s">>}
ArgChars == {<<"-", "m">>, <<"-", "-", "c", "h", "a", "r", "s">>}
ArgLines == {<<"-", "l">>, <<"-", "-", "l", "i", "n", "e", "s">>}
ArgMaxLine == {<<"-", "L">>,
               <<"-", "-", "m", "a", "x", "-", "l", "i", "n", "e", "-",
                 "l", "e", "n", "g", "t", "h">>}
ArgWords == {<<"-", "w">>, <<"-", "-", "w", "o", "r", "d", "s">>}
ArgVersion == <<"-", "-", "v", "e", "r", "s", "i", "o", "n">>
ArgHelp == <<"-", "-", "h", "e", "l", "p">>
Files0Prefix == <<"-", "-", "f", "i", "l", "e", "s", "0", "-", "f", "r", "o", "m", "=">>

\* MatchArm, were --bytes to select the character count.
MatchArm_BytesAlias(arg) ==
    CASE arg = <<"-", "c">> -> CountBytes
      [] arg \in ArgChars \/ (arg \in ArgBytes /\ arg # <<"-", "c">>) -> CountCharacters
      [] arg \in ArgLines   -> CountLines
      [] arg \in ArgMaxLine -> MaxLineLength
      [] arg \in ArgWords   -> CountWords
      [] arg = Dash         -> "stdin"
      [] arg = ArgVersion   -> "version"
      [] arg = ArgHelp      -> "help"
      [] OTHER -> IF starts_with(arg, Files0Prefix) THEN "files0"
                  ELSE IF starts_with(arg, Dash) THEN "invalid"
                  ELSE "file"

\* The arm of main's match that takes arg: the arms are tried in order.
MatchArm(arg) ==
    CASE arg \in ArgBytes   -> CountBytes
      [] arg \in ArgChars   -> CountCharacters
      [] arg \in ArgLines   -> CountLines
      [] arg \in ArgMaxLine -> MaxLineLength
      [] arg \in ArgWords   -> CountWords
      [] arg = Dash         -> "stdin"
      [] arg = ArgVersion   -> "version"
      [] arg = ArgHelp      -> "help"
      [] OTHER -> IF starts_with(arg, Files0Prefix) THEN "files0"
                  ELSE IF starts_with(arg, Dash) THEN "invalid"
                  ELSE "file"

\* ------------------------------------------------------------ messages
VersionText == <<"ccwc 0.1.0 ... Written by Pedro Rodrigues">>
HelpText == <<"ccwc - print newline, word, and byte counts for each file ...">>

version == <<VersionText>>

help == <<HelpText>>

\* &opt[..min(opt.len(), 1)] slices bytes: it panics inside a character.
InvalidOptPanics(opt) ==
    LET rest == Tail(opt) IN rest # <<>> /\ ByteLen(Head(rest)) > 1

invalid_opt(opt) ==
    LET rest == Tail(opt)
        first == IF rest = <<>> THEN <<>> ELSE <<Head(rest)>>
    IN  << <<"ccwc: invalid option -- '">> \o first \o <<"'">>,
           <<"Try 'ccwc --help' for more information">> >>

IsADirectoryLine(file) == <<"ccwc: ">> \o file \o <<": Is a directory">>

NoSuchFileLine(file) == <<"ccwc: ">> \o file \o <<": No such file or directory">>

\* println!("{}{:>FMT_DISPLAY_WIDTH$}", fmt, file)
RowLine(fmt, file) == fmt \o FmtRight(file, FMT_DISPLAY_WIDTH)

\* ------------------------------------------------------------ environment
NotFound == [kind |-> "none", content |-> <<>>]

\* fs::metadata(path): Err for a path that does not exist.
Metadata(path) == IF path \in DOMAIN fs THEN fs[path] ELSE NotFound

\* io::read_to_string(io::stdin()): the rest of the stream, then nothing.
StdinRead == IF stdin_eof THEN <<>> ELSE stdin

\* HashSet::into_iter().collect(): the elements once each, in the order the
\* run's hasher keys give; any order is possible.
IterOrders(S) ==
    {s \in [1..Cardinality(S) -> S] : {s[i] : i \in 1..Cardinality(S)} = S}

\* ------------------------------------------------------------ add_input_files
Files0Input(opt) == SubSeq(opt, Len(Files0Prefix) + 1, Len(opt))

\* fs::read_to_string(input).expect(..) panics unless input is a readable file.
AddInputFilesPanics(opt) ==
    Files0Input(opt) # Dash /\ Metadata(Files0Input(opt)).kind # "file"

Files0Contents(opt) ==
    IF Files0Input(opt) = Dash THEN StdinRead ELSE Metadata(Files0Input(opt)).content

\* add_input_files, were the names put before those already listed.
add_input_files_Prepend(opt, fl) == split(Files0Contents(opt), NUL) \o fl

\* add_input_files, were empty names left out.
add_input_files_SkipEmpty(opt, fl) ==
    fl \o SelectSeq(split(Files0Contents(opt), NUL), LAMBDA name : name # <<>>)

add_input_files(opt, fl) == fl \o split(Files0Contents(opt), NUL)

\* ------------------------------------------------------------ the inputs
FileA == <<"a">>
FileB == <<"b">>
DirD == <<"d">>
ListL == <<"l">>
MissingM == <<"m">>

ScenarioA ==
    <<"h", "e", "l", "l", "o", " ", "w", "o", "r", "l", "d", "\n", "f", "o", "o", "\n">>
ScenarioB == <<"b", "a", "r", "\n">>
ScenarioStdin ==
    <<"o", "n", "e", " ", "t", "w", "o", " ", "t", "h", "r", "e", "e", "\n">>
ListContents == <<"a", NUL, "b", NUL>>
StdinNames == <<"b", NUL, "m">>

DefaultFs ==
    (FileA :> [kind |-> "file", content |-> ScenarioA]) @@
    (FileB :> [kind |-> "file", content |-> ScenarioB]) @@
    (DirD  :> [kind |-> "dir",  content |-> <<>>]) @@
    (ListL :> [kind |-> "file", content |-> ListContents])

Tokens ==
    {<<"-", "c">>, <<"-", "-", "b", "y", "t", "e", "s">>, <<"-", "l">>,
     <<"-", "w">>, <<"-", "L">>, Dash, ArgVersion, ArgHelp,
     Files0Prefix \o ListL, Files0Prefix \o Dash, Files0Prefix \o MissingM,
     <<"-", "x">>, <<"-", EAcute>>, FileA, FileB, DirD, MissingM}

WcTokens == {<<"-", "L">>, <<"-", "w">>, Dash, FileA}

Alphabet == {"a", SP, NL, CR, EAcute}

Strings(n) == UNION {[1..k -> Alphabet] : k \in 0..n}

Contents == Strings(MaxLen) \cup {ScenarioA, ScenarioStdin}

\* ------------------------------------------------------------ main
Init ==
    /\ argv = <<>>
    /\ files = <<>>
    /\ read_stdin = FALSE
    /\ opts_set = {}
    /\ opts = <<>>
    /\ stdin = StdinNames
    /\ stdin_eof = FALSE
    /\ fs = DefaultFs
    /\ out = <<>>
    /\ fidx = 0
    /\ pc = "parse"

InitWc ==
    /\ argv = <<>>
    /\ files = <<>>
    /\ read_stdin = FALSE
    /\ opts_set = {}
    /\ opts = <<>>
    /\ \E c \in Contents :
          /\ stdin = c
          /\ fs = [DefaultFs EXCEPT ![FileA].content = c]
    /\ stdin_eof = FALSE
    /\ out = <<>>
    /\ fidx = 0
    /\ pc = "parse"

\* The next argument of env::args().skip(1), one of T, while fewer than n came.
NextArg(T, n, arm) ==
    {arg \in T : pc = "parse" /\ Len(argv) < n /\ MatchArm(arg) = arm}

ParseMetric(T, n) ==
    \E m \in WcCliOpt : \E arg \in NextArg(T, n, m) :
        /\ argv' = Append(argv, arg)
        /\ opts_set' = opts_set \cup {m}
        /\ UNCHANGED <<files, read_stdin, opts, stdin, stdin_eof, fs, out, fidx, pc>>

ParseStdinFlag(T, n) ==
    \E arg \in NextArg(T, n, "stdin") :
        /\ argv' = Append(argv, arg)
        /\ read_stdin' = TRUE
        /\ UNCHANGED <<files, opts_set, opts, stdin, stdin_eof, fs, out, fidx, pc>>

ParseVersion(T, n) ==
    \E arg \in NextArg(T, n, "version") :
        /\ argv' = Append(argv, arg)
        /\ out' = out \o version
        /\ pc' = "exit"
        /\ UNCHANGED <<files, read_stdin, opts_set, opts, stdin, stdin_eof, fs, fidx>>

ParseHelp(T, n) ==
    \E arg \in NextArg(T, n, "help") :
        /\ argv' = Append(argv, arg)
        /\ out' = out \o help
        /\ pc' = "exit"
        /\ UNCHANGED <<files, read_stdin, opts_set, opts, stdin, stdin_eof, fs, fidx>>

ParseFiles0From(T, n) ==
    \E arg \in NextArg(T, n, "files0") :
        /\ argv' = Append(argv, arg)
        /\ IF AddInputFilesPanics(arg)
           THEN /\ pc' = "panic"
                /\ UNCHANGED <<files, stdin_eof>>
           ELSE /\ files' = add_input_files(arg, files)
                /\ stdin_eof' = (stdin_eof \/ Files0Input(arg) = Dash)
                /\ pc' = pc
        /\ UNCHANGED <<read_stdin, opts_set, opts, stdin, fs, out, fidx>>

ParseInvalid(T, n) ==
    \E arg \in NextArg(T, n, "invalid") :
        /\ argv' = Append(argv, arg)
        /\ IF InvalidOptPanics(arg)
           THEN /\ pc' = "panic"
                /\ out' = out
           ELSE /\ out' = out \o invalid_opt(arg)
                /\ pc' = "exit"
        /\ UNCHANGED <<files, read_stdin, opts_set, opts, stdin, stdin_eof, fs, fidx>>

ParseFile(T, n) ==
    \E arg \in NextArg(T, n, "file") :
        /\ argv' = Append(argv, arg)
        /\ files' = Append(files, arg)
        /\ UNCHANGED <<read_stdin, opts_set, opts, stdin, stdin_eof, fs, out, fidx, pc>>

\* The arguments are exhausted: opts becomes the Vec.
DefaultOptions ==
    /\ pc = "parse"
    /\ IF opts_set = {}
       THEN opts' = <<CountLines, CountWords, CountBytes>>
       ELSE opts' \in IterOrders(opts_set)
    /\ pc' = "stdin"
    /\ UNCHANGED <<argv, files, read_stdin, opts_set, stdin, stdin_eof, fs, out, fidx>>

StdinLabel == IF read_stdin THEN Dash ELSE <<>>

ReadStdin ==
    /\ pc = "stdin"
    /\ IF read_stdin \/ files = <<>>
       THEN /\ out' = Append(out, RowLine(wc(StdinRead, opts).fmt, StdinLabel))
            /\ stdin_eof' = TRUE
       ELSE UNCHANGED <<out, stdin_eof>>
    /\ pc' = "files"
    /\ UNCHANGED <<argv, files, read_stdin, opts_set, opts, stdin, fs, fidx>>

\* FileLines, were a missing entry counted as empty like a directory.
FileLines_MissingCounted(file) ==
    LET metadata == Metadata(file)
    IN  IF metadata.kind = "file"
        THEN <<RowLine(wc(metadata.content, opts).fmt, file)>>
        ELSE IF metadata.kind = "dir"
        THEN <<IsADirectoryLine(file), RowLine(wc(<<>>, opts).fmt, file)>>
        ELSE <<NoSuchFileLine(file), RowLine(wc(<<>>, opts).fmt, file)>>

\* FileLines, were a directory skipped after its diagnostic.
FileLines_DirectorySkipped(file) ==
    LET metadata == Metadata(file)
    IN  IF metadata.kind = "file"
        THEN <<RowLine(wc(metadata.content, opts).fmt, file)>>
        ELSE IF metadata.kind = "dir"
        THEN <<IsADirectoryLine(file)>>
        ELSE <<NoSuchFileLine(file)>>

\* What one iteration of the loop over files prints for file.
FileLines(file) ==
    LET metadata == Metadata(file)
    IN  IF metadata.kind # "none"
        THEN IF metadata.kind = "file"
             THEN <<RowLine(wc(metadata.content, opts).fmt, file)>>
             ELSE <<IsADirectoryLine(file), RowLine(wc(<<>>, opts).fmt, file)>>
        ELSE <<NoSuchFileLine(file)>>

ProcessFile ==
    /\ pc = "files"
    /\ fidx < Len(files)
    /\ out' = out \o FileLines(files[fidx + 1])
    /\ fidx' = fidx + 1
    /\ UNCHANGED <<argv, files, read_stdin, opts_set, opts, stdin, stdin_eof, fs, pc>>

Return ==
    /\ pc = "files"
    /\ fidx = Len(files)
    /\ pc' = "done"
    /\ UNCHANGED <<argv, files, read_stdin, opts_set, opts, stdin, stdin_eof, fs, out, fidx>>

Next ==
    \/ ParseMetric(Tokens, MaxArgs)
    \/ ParseStdinFlag(Tokens, MaxArgs)
    \/ ParseVersion(Tokens, MaxArgs)
    \/ ParseHelp(Tokens, MaxArgs)
    \/ ParseFiles0From(Tokens, MaxArgs)
    \/ ParseInvalid(Tokens, MaxArgs)
    \/ ParseFile(Tokens, MaxArgs)
    \/ DefaultOptions
    \/ ReadStdin
    \/ ProcessFile
    \/ Return

Spec == Init /\ [][Next]_vars

NextWc ==
    \/ ParseMetric(WcTokens, MaxWcArgs)
    \/ ParseStdinFlag(WcTokens, MaxWcArgs)
    \/ ParseFile(WcTokens, MaxWcArgs)
    \/ DefaultOptions
    \/ ReadStdin
    \/ ProcessFile
    \/ Return

SpecWc == InitWc /\ [][NextWc]_vars

\* ------------------------------------------------------------ layout of out
\* The counting stage has printed the standard-input row, if the run has one.
Counting == pc \in {"files", "done"}

NStdinRows == IF Counting /\ (read_stdin \/ files = <<>>) THEN 1 ELSE 0

Kind(file) == IF file \in DOMAIN fs THEN fs[file].kind ELSE "none"

ContentOf(file) == IF file \in DOMAIN fs THEN fs[file].content ELSE <<>>

Existing(file) == Kind(file) # "none"

NLines(file) == IF Kind(file) = "dir" THEN 2 ELSE 1

\* The number of lines of out that precede those of the i-th entry of files.
RECURSIVE Offset(_)
Offset(i) == IF i = 1 THEN NStdinRows ELSE Offset(i - 1) + NLines(files[i - 1])

IsNoSuchFile(line) == line # <<>> /\ line[Len(line)] = ": No such file or directory"

IsNotNoSuchFile(line) == ~IsNoSuchFile(line)

RECURSIVE RowsOf(_)
RowsOf(fl) == IF fl = <<>> THEN <<>> ELSE FileLines(Head(fl)) \o RowsOf(Tail(fl))

\* ------------------------------------------------------------ C1
TotalLabel == <<"t", "o", "t", "a", "l">>

IsTotalLine(line) ==
    Len(line) >= Len(TotalLabel)
    /\ SubSeq(line, Len(line) - Len(TotalLabel) + 1, Len(line)) = TotalLabel

FileRows == {i \in 1..fidx : Existing(files[i])}

RECURSIVE SumCount(_, _)
SumCount(i, opt) ==
    IF i = 0 THEN 0
    ELSE SumCount(i - 1, opt)
         + (IF Existing(files[i]) THEN CountOf(ContentOf(files[i]), opt).n ELSE 0)

RECURSIVE TotalFmt(_)
TotalFmt(k) ==
    IF k = 0 THEN <<>>
    ELSE TotalFmt(k - 1)
         \o FmtRight(Digits(SumCount(Len(files), opts[k])), FMT_DISPLAY_WIDTH) \o <<SP>>

\* C1: once the run is over, a last line labeled total is printed if and only
\* if more than one file source got a count row, and its counts are the
\* column-wise sums of those rows.
C1_TotalLine ==
    pc = "done" =>
        IF Cardinality(FileRows) > 1
        THEN /\ out # <<>>
             /\ out[Len(out)] = RowLine(TotalFmt(Len(opts)), TotalLabel)
        ELSE \A k \in 1..Len(out) : ~IsTotalLine(out[k])

\* ------------------------------------------------------------ C4
\* C4: every processed entry of files whose path does not exist has exactly
\* the line "ccwc: <path>: No such file or directory" at its place in the
\* output and no count row, and the other lines are those of the same list
\* without the missing entries.
C4_MissingEntrySkipped ==
    Counting =>
        /\ Len(out) = Offset(fidx + 1)
        /\ \A i \in 1..fidx :
              ~Existing(files[i]) =>
                  out[Offset(i) + 1] =
                      <<"ccwc: ">> \o files[i] \o <<": No such file or directory">>
        /\ SelectSeq(SubSeq(out, NStdinRows + 1, Len(out)), IsNotNoSuchFile)
               = RowsOf(SelectSeq(SubSeq(files, 1, fidx), Existing))
        /\ (pc = "done" => fidx = Len(files))

C4_Witness ==
    /\ pc = "done"
    /\ Len(files) = 3
    /\ ~Existing(files[1])
    /\ Kind(files[2]) = "file"
    /\ Kind(files[3]) = "dir"

\* ------------------------------------------------------------ C5
ZeroField == <<SP, SP, SP, SP, SP, "0", SP>>

RECURSIVE ZeroFields(_)
ZeroFields(n) == IF n = 0 THEN <<>> ELSE ZeroField \o ZeroFields(n - 1)

\* C5: every processed entry of files that is a directory has the line
\* "ccwc: <path>: Is a directory" immediately followed by its count row with
\* a 0 for every requested metric, and the loop goes on to the last entry.
C5_DirectoryZeroRow ==
    Counting =>
        /\ Len(out) = Offset(fidx + 1)
        /\ \A i \in 1..fidx :
              Kind(files[i]) = "dir" =>
                  /\ out[Offset(i) + 1] = <<"ccwc: ">> \o files[i] \o <<": Is a directory">>
                  /\ out[Offset(i) + 2]
                         = ZeroFields(Len(opts)) \o FmtRight(files[i], FMT_DISPLAY_WIDTH)
        /\ (pc = "done" => fidx = Len(files))

C5_Witness ==
    /\ pc = "done"
    /\ Len(files) = 2
    /\ Kind(files[1]) = "dir"
    /\ Kind(files[2]) = "file"
    /\ opts_set # {}

\* ------------------------------------------------------------ the command line
Front(sq) == SubSeq(sq, 1, Len(sq) - 1)

Last(sq) == sq[Len(sq)]

Range(sq) == {sq[i] : i \in 1..Len(sq)}

MetricFlags == ArgBytes \cup ArgChars \cup ArgLines \cup ArgMaxLine \cup ArgWords

MetricOfFlag(arg) ==
    IF arg \in ArgBytes THEN CountBytes
    ELSE IF arg \in ArgChars THEN CountCharacters
    ELSE IF arg \in ArgLines THEN CountLines
    ELSE IF arg \in ArgMaxLine THEN MaxLineLength
    ELSE CountWords

IsFiles0(arg) == starts_with(arg, Files0Prefix)

IsPath(arg) == arg = <<>> \/ arg[1] # "-"

\* The distinct metrics of the arguments as, in the order of first mention.
RECURSIVE FirstMention(_)
FirstMention(as) ==
    IF as = <<>> THEN <<>>
    ELSE LET prev == FirstMention(Front(as))
         IN  IF Last(as) \in MetricFlags /\ MetricOfFlag(Last(as)) \notin Range(prev)
             THEN Append(prev, MetricOfFlag(Last(as)))
             ELSE prev

Mentioned == Range(FirstMention(argv))

Orderings(S) ==
    {s \in [1..Cardinality(S) -> S] :
        \A i, j \in 1..Cardinality(S) : s[i] = s[j] => i = j}

\* The text a --files0-from argument reads once the arguments as are parsed:
\* standard input is at its end after a first --files0-from=-.
ListText(as, arg) ==
    IF arg = Files0Prefix \o Dash
    THEN IF \E j \in 1..Len(as) : as[j] = Files0Prefix \o Dash THEN <<>> ELSE stdin
    ELSE ContentOf(SubSeq(arg, Len(Files0Prefix) + 1, Len(arg)))

\* The text of the standard-input row of the counting stage.
StdinRowText == ListText(argv, Files0Prefix \o Dash)

\* Every count row printed so far satisfies P(row, text counted, label).
RowsSatisfy(P(_, _, _)) ==
    /\ Len(out) = Offset(fidx + 1)
    /\ NStdinRows = 1 => P(out[1], StdinRowText, StdinLabel)
    /\ \A i \in 1..fidx :
          Existing(files[i]) =>
              P(out[Offset(i) + NLines(files[i])], ContentOf(files[i]), files[i])

\* Every count row printed so far has its columns in the given order.
AllRowsUse(order) ==
    RowsSatisfy(LAMBDA row, text, label : row = RowLine(wc(text, order).fmt, label))

ShortCircuits(arg) ==
    \/ arg = ArgHelp
    \/ arg = ArgVersion
    \/ /\ ~IsPath(arg)
       /\ arg \notin MetricFlags \cup {Dash}
       /\ ~IsFiles0(arg)

ShortCircuitText(arg) ==
    IF arg = ArgHelp THEN <<HelpText>>
    ELSE IF arg = ArgVersion THEN <<VersionText>>
    ELSE << <<"ccwc: invalid option -- '", arg[2], "'">>,
            <<"Try 'ccwc --help' for more information">> >>

\* No argument follows a short-circuiting one and no source is processed.
NothingAfter(i) ==
    /\ i = Len(argv)
    /\ pc \in {"exit", "panic"}
    /\ opts = <<>>
    /\ fidx = 0

\* C6: once --help, --version or an unrecognized token starting with "-" is
\* parsed, the output is exactly its help text, version banner or
\* invalid-option diagnostic, no later argument is parsed and no source is
\* processed.
C6_ShortCircuit ==
    \A i \in 1..Len(argv) :
        ShortCircuits(argv[i]) =>
            /\ NothingAfter(i)
            /\ out = ShortCircuitText(argv[i])

\* The part of C6 that holds of every token: nothing is parsed or processed
\* after it, and the output is its text unless invalid_opt panicked.
C6_ShortCircuitUnlessPanic ==
    \A i \in 1..Len(argv) :
        ShortCircuits(argv[i]) =>
            /\ NothingAfter(i)
            /\ out = IF pc = "panic" THEN <<>> ELSE ShortCircuitText(argv[i])

\* ------------------------------------------------------------ C7, C8
\* The names the arguments as put in the file list, in order.
RECURSIVE NamesOf(_)
NamesOf(as) ==
    IF as = <<>> THEN <<>>
    ELSE NamesOf(Front(as)) \o
         (IF IsFiles0(Last(as)) THEN split(ListText(Front(as), Last(as)), NUL)
          ELSE IF IsPath(Last(as)) THEN <<Last(as)>>
          ELSE <<>>)

StdinRows ==
    IF read_stdin \/ files = <<>>
    THEN <<RowLine(wc(StdinRowText, opts).fmt, StdinLabel)>>
    ELSE <<>>

\* The output lines were every source printed where its argument stands.
RECURSIVE LinesInArgOrder(_)
LinesInArgOrder(as) ==
    IF as = <<>> THEN <<>>
    ELSE LinesInArgOrder(Front(as)) \o
         (IF IsFiles0(Last(as)) THEN RowsOf(split(ListText(Front(as), Last(as)), NUL))
          ELSE IF IsPath(Last(as)) THEN FileLines(Last(as))
          ELSE IF Last(as) = Dash /\ Dash \notin Range(Front(as)) THEN StdinRows
          ELSE <<>>)

\* C7 as stated: the output lines are in the order of the sources on the
\* command line, explicit standard input included.
C7_CommandLineOrder ==
    pc = "done" =>
        out = IF files = <<>> /\ ~read_stdin THEN StdinRows ELSE LinesInArgOrder(argv)

\* C7 as amended: the file list is complete, in command-line order with each
\* --files0-from expansion in its place, before anything is counted; the
\* lines of the file sources follow that order; the standard-input row, if
\* any, comes first wherever "-" stood.
C7_FilesInOrderStdinFirst ==
    /\ pc = "parse" => out = <<>>
    /\ pc \in {"stdin", "files", "done"} => files = NamesOf(argv)
    /\ pc = "stdin" => out = <<>>
    /\ Counting => out = StdinRows \o RowsOf(SubSeq(files, 1, fidx))

C7_Witness ==
    /\ pc = "done"
    /\ Len(argv) = 3
    /\ IsPath(argv[1])
    /\ IsFiles0(argv[2])
    /\ argv[3] = Dash
    /\ Len(out) > 3

NulCount(text) == Cardinality({i \in 1..Len(text) : text[i] = NUL})

RECURSIVE Join(_)
Join(ps) == IF Len(ps) = 1 THEN ps[1] ELSE ps[1] \o <<NUL>> \o Join(Tail(ps))

\* ps are the pieces of text between its NULs, none dropped or merged.
IsNulSplit(ps, text) ==
    /\ Len(ps) = NulCount(text) + 1
    /\ \A k \in 1..Len(ps) : NUL \notin Range(ps[k])
    /\ Join(ps) = text

\* The number of names that the arguments before the i-th put in the list.
RECURSIVE SegStart(_)
SegStart(i) ==
    IF i = 1 THEN 0
    ELSE SegStart(i - 1) +
         (IF IsFiles0(argv[i - 1])
          THEN NulCount(ListText(SubSeq(argv, 1, i - 2), argv[i - 1])) + 1
          ELSE IF IsPath(argv[i - 1]) THEN 1 ELSE 0)

RefLines(text) ==
    Cardinality({i \in 1..Len(text) : text[i] = NL})
    + (IF text # <<>> /\ Last(text) # NL THEN 1 ELSE 0)

RefWords(text) ==
    Cardinality({i \in 1..Len(text) :
        /\ text[i] \notin {SP, NL, CR}
        /\ (i = 1 \/ text[i - 1] \in {SP, NL, CR})})

RefBytes(text) == Len(text) + Cardinality({i \in 1..Len(text) : text[i] = EAcute})

Field(n) == FmtRight(Digits(n), 6) \o <<SP>>

DefaultRow(row, text, label) ==
    row = Field(RefLines(text)) \o Field(RefWords(text)) \o Field(RefBytes(text))
          \o FmtRight(label, 6)

ScenarioARow ==
    <<SP, SP, SP, SP, SP, "2", SP, SP, SP, SP, SP, SP, "3", SP,
      SP, SP, SP, SP, "1", "6", SP, SP, SP, SP, SP, SP, "a">>

RECURSIVE MaxChars(_)
MaxChars(ls) ==
    IF ls = <<>> THEN 0
    ELSE IF Len(Head(ls)) > MaxChars(Tail(ls)) THEN Len(Head(ls)) ELSE MaxChars(Tail(ls))

MaxLineRow(row, text, label) ==
    row = Field(MaxChars(lines(text))) \o FmtRight(label, 6)

\* C9: the MaxLineLength count of every row is the greatest length in
\* characters of a line of the text, 0 for a text with no line.
C9_MaxLineChars ==
    (Counting /\ opts = <<MaxLineLength>>) => RowsSatisfy(MaxLineRow)

\* The same with line lengths in bytes, as wc computes them.
MaxLineBytesRow(row, text, label) ==
    row = Field(MaxLineBytes(lines(text))) \o FmtRight(label, 6)

C9_MaxLineBytes ==
    (Counting /\ opts = <<MaxLineLength>>) => RowsSatisfy(MaxLineBytesRow)

\* ------------------------------------------------------------ C10
RightAligned(field, text) ==
    /\ Len(field) = 6
    /\ Len(text) <= 6
    /\ SubSeq(field, 6 - Len(text) + 1, 6) = text
    /\ \A k \in 1..(6 - Len(text)) : field[k] = SP

\* Each count right-aligned in 6 characters and followed by a space, then
\* the label right-aligned in 6 characters.
PaddedRow(row, text, label) ==
    /\ Len(row) = 7 * Len(opts) + 6
    /\ \A k \in 1..Len(opts) :
          /\ RightAligned(SubSeq(row, 7 * (k - 1) + 1, 7 * (k - 1) + 6),
                          Digits(CountOf(text, opts[k]).n))
          /\ row[7 * k] = SP
    /\ RightAligned(SubSeq(row, 7 * Len(opts) + 1, Len(row)), label)

UnpaddedRow(row, text, label) ==
    row = Digits(CountOf(text, opts[1]).n) \o <<SP>> \o label

SingleSource == NStdinRows + Len(files) = 1

\* C10 as stated: the one count of a single-source run with one requested
\* metric is printed without padding; the counts of a row with several are
\* each right-aligned in 6 characters, a space after each, then the label.
C10_WidthRule ==
    pc = "done" =>
        /\ (Len(opts) = 1 /\ SingleSource) => RowsSatisfy(UnpaddedRow)
        /\ Len(opts) > 1 => RowsSatisfy(PaddedRow)

\* C10 as amended: in every run, a single-source run with one requested
\* metric included, each count is right-aligned in 6 characters, a space
\* after each, then the label, itself right-aligned in 6 characters.
C10_FixedWidth == Counting => RowsSatisfy(PaddedRow)

C10_Witness ==
    /\ pc = "done"
    /\ Len(opts) = 1
    /\ SingleSource
    /\ files = <<FileA>>
    /\ ContentOf(FileA) = <<"a", SP, EAcute>>

====
